---- MODULE Spec2Model ----
(***************************************************************************)
(* AutoKube AI Backend (src/backend/main.py): a FastAPI application with    *)
(* four routes served by one uvicorn event loop.                            *)
(*                                                                          *)
(* Conventions of the model                                                 *)
(*  - A log line is a finite sequence of fragments; a trigger keyword is a  *)
(*    sequence of fragments too, and Python's `kw in log` is contiguous     *)
(*    sub-sequence containment.  "CrashLoopBackOff" is the two fragments    *)
(*    CrashLoop,BackOff, so that a line may hold a part of a keyword, or    *)
(*    its parts separated, without holding the keyword.                     *)
(*  - Python lists are 0-based, TLA+ sequences 1-based: SAMPLE_ISSUES[0]    *)
(*    of the source is SAMPLE_ISSUES[1] here.                               *)
(*  - A float confidence 0.92 is the integer 92 (hundredths).               *)
(*  - A JSON object is a record; a key the client left out is a field       *)
(*    that is not in the record's DOMAIN.  Optional[...] = None is <<>>,    *)
(*    a present value v is <<v>>.                                           *)
(***************************************************************************)
EXTENDS Integers, Sequences, FiniteSets, TLC

\* ------------------------------------------------------------------ bounds
\* Number of requests the clients send in one run.
MaxRequests == 3
\* Number of requests the clients send in one run of LiveSpec, the
\* specification of the liveness property; at most MaxRequests.
MaxLiveRequests == 2
\* Longest `logs` list of a request body (DiagnoseSpec).
MaxLogs == 2
\* Most fragments in all the lines of one request body (DiagnoseSpec).
MaxFragments == 3

Reqs == 1..MaxRequests

\* ---------------------------------------------------------- the catalogue
\* SAMPLE_ISSUES as the module defines it at import time.
InitialCatalog ==
  << [issue |-> "CrashLoopBackOff", confidence |-> 92,
      suggestion |-> "Restart the pod or check livenessProbe configuration",
      details |-> [affected_pods |-> <<"frontend-app-7d9f4b8f9c-2x4z5">>,
                   root_cause |-> "Application is failing to start due to missing configuration",
                   severity |-> "high"]],
     [issue |-> "ImagePullBackOff", confidence |-> 89,
      suggestion |-> "Verify image name and ensure pull secrets are configured correctly",
      details |-> [affected_pods |-> <<"backend-api-5c8d7f6b4d-3y6x7">>,
                   root_cause |-> "Container image not found in registry",
                   severity |-> "medium"]],
     [issue |-> "OOMKilled", confidence |-> 95,
      suggestion |-> "Increase memory limits for the container",
      details |-> [affected_pods |-> <<"database-0">>,
                   root_cause |-> "Container exceeded memory limits",
                   severity |-> "critical"]],
     [issue |-> "NetworkPolicyBlocked", confidence |-> 87,
      suggestion |-> "Update network policy to allow required traffic",
      details |-> [affected_pods |-> <<"auth-service-6b9c5d4e3f-4z7x8">>,
                   root_cause |-> "Network policy is blocking required connections",
                   severity |-> "high"]],
     [issue |-> "PodUnschedulable", confidence |-> 91,
      suggestion |-> "Check node resources or adjust pod resource requests",
      details |-> [affected_pods |-> <<"analytics-job-9e8d7c6b5a">>,
                   root_cause |-> "Insufficient resources available on nodes",
                   severity |-> "medium"]] >>

\* The three entries in the opposite order.
recent_issues_reversed ==
  << [id |-> "issue-003", namespace |-> "production", resource |-> "statefulset/database",
      issue |-> "OOMKilled", detected |-> "2025-01-15T08:12:05Z",
      status |-> "remediated", confidence |-> 95],
     [id |-> "issue-002", namespace |-> "staging", resource |-> "pod/backend-api-5c8d7f6b4d-3y6x7",
      issue |-> "ImagePullBackOff", detected |-> "2025-01-15T09:45:22Z",
      status |-> "pending", confidence |-> 89],
     [id |-> "issue-001", namespace |-> "production", resource |-> "deployment/frontend",
      issue |-> "CrashLoopBackOff", detected |-> "2025-01-15T10:30:15Z",
      status |-> "remediated", confidence |-> 92] >>

\* The list get_issues returns, built anew by every call.
recent_issues ==
  << [id |-> "issue-001", namespace |-> "production", resource |-> "deployment/frontend",
      issue |-> "CrashLoopBackOff", detected |-> "2025-01-15T10:30:15Z",
      status |-> "remediated", confidence |-> 92],
     [id |-> "issue-002", namespace |-> "staging", resource |-> "pod/backend-api-5c8d7f6b4d-3y6x7",
      issue |-> "ImagePullBackOff", detected |-> "2025-01-15T09:45:22Z",
      status |-> "pending", confidence |-> 89],
     [id |-> "issue-003", namespace |-> "production", resource |-> "statefulset/database",
      issue |-> "OOMKilled", detected |-> "2025-01-15T08:12:05Z",
      status |-> "remediated", confidence |-> 95] >>

\* ------------------------------------------------------- keywords, lines
\* What a log line is made of.  "oomkilled" is OOMKilled in another case;
\* CrashLoop and BackOff alone are no keyword.
Fragments ==
  {"CrashLoop", "BackOff", "ImagePull", "OOMKilled", "NetworkPolicy",
   "Unschedulable", "oomkilled"}

KwCrashLoopBackOff == <<"CrashLoop", "BackOff">>
KwImagePull == <<"ImagePull">>
KwOOMKilled == <<"OOMKilled">>
KwNetworkPolicy == <<"NetworkPolicy">>
KwUnschedulable == <<"Unschedulable">>

\* Python's `kw in log` on strings: kw occurs in log at some offset.
Contains(kw, log) ==
  \E off \in 0..(Len(log) - Len(kw)) :
    SubSeq(log, off + 1, off + Len(kw)) = kw

\* ------------------------------------------------------------ the handler
\* The same keywords tested keyword-major: any line holding the first
\* keyword wins over every line holding a later one.
ScanLogsFlattened(logs) ==
  LET InSomeLine(kw) == \E i \in 1..Len(logs) : Contains(kw, logs[i])
  IN  IF InSomeLine(KwCrashLoopBackOff) THEN 1
      ELSE IF InSomeLine(KwImagePull) THEN 2
      ELSE IF InSomeLine(KwOOMKilled) THEN 3
      ELSE IF InSomeLine(KwNetworkPolicy) THEN 4
      ELSE IF InSomeLine(KwUnschedulable) THEN 5
      ELSE 0

\* The same chain over reversed(request.logs): the last matching line wins.
RECURSIVE ScanLogsReversed(_)
ScanLogsReversed(logs) ==
  IF logs = <<>> THEN 0
  ELSE LET log == logs[Len(logs)]
       IN  IF Contains(KwCrashLoopBackOff, log) THEN 1
           ELSE IF Contains(KwImagePull, log) THEN 2
           ELSE IF Contains(KwOOMKilled, log) THEN 3
           ELSE IF Contains(KwNetworkPolicy, log) THEN 4
           ELSE IF Contains(KwUnschedulable, log) THEN 5
           ELSE ScanLogsReversed(SubSeq(logs, 1, Len(logs) - 1))

\* `for log in request.logs:` with its if/elif chain: the index into
\* SAMPLE_ISSUES of the record the loop returns, 0 when the loop ends
\* without returning.
RECURSIVE ScanLogs(_)
ScanLogs(logs) ==
  IF logs = <<>> THEN 0
  ELSE LET log == Head(logs)
       IN  IF Contains(KwCrashLoopBackOff, log) THEN 1
           ELSE IF Contains(KwImagePull, log) THEN 2
           ELSE IF Contains(KwOOMKilled, log) THEN 3
           ELSE IF Contains(KwNetworkPolicy, log) THEN 4
           ELSE IF Contains(KwUnschedulable, log) THEN 5
           ELSE ScanLogs(Tail(logs))

\* random.choice(seq): any element of seq.
random_choice(seq) == {seq[k] : k \in DOMAIN seq}

\* A sixth, well-formed record returned when nothing matches.
diagnose_issues_unknown(catalog, request) ==
  LET hit == IF request.logs # <<>> THEN ScanLogs(request.logs) ELSE 0
  IN  IF hit # 0 THEN {catalog[hit]}
      ELSE {[issue |-> "Unknown", confidence |-> 0, suggestion |-> "No issue detected",
             details |-> [affected_pods |-> <<>>, root_cause |-> "unknown",
                          severity |-> "low"]]}

\* No return after the loop for an empty list: the handler hands back a
\* dict that lacks the response model's required fields.
diagnose_issues_partial(catalog, request) ==
  LET hit == IF request.logs # <<>> THEN ScanLogs(request.logs) ELSE 0
  IN  IF hit # 0 THEN {catalog[hit]}
      ELSE IF request.logs = <<>> THEN {[details |-> [severity |-> "low"]]}
      ELSE random_choice(catalog)

\* The request's context overrides the scan.
diagnose_issues_context(catalog, request) ==
  LET hit == IF request.logs # <<>> /\ request.context = <<>>
             THEN ScanLogs(request.logs) ELSE 0
  IN  IF hit # 0 THEN {catalog[hit]} ELSE random_choice(catalog)

\* The values `diagnose_issues` may return for a validated request, after
\* its sleep and its two prints: the scan's record, or any record.
diagnose_issues(catalog, request) ==
  LET hit == IF request.logs # <<>> THEN ScanLogs(request.logs) ELSE 0
  IN  IF hit # 0 THEN {catalog[hit]} ELSE random_choice(catalog)

\* The two lines the handler prints.
diagnose_prints(request) ==
  << <<"Received logs for namespace: ", request.namespace>>,
     <<"Log count: ", Len(request.logs)>> >>

\* --------------------------------------------------- request and response
\* `logs: List[str] = []`: a default where the model requires the field.
DiagnoseRequestValidDefaulted(body) == TRUE

\* class DiagnoseRequest: `logs` has no default, so it is required.
DiagnoseRequestValid(body) == "logs" \in DOMAIN body

\* The DiagnoseRequest pydantic builds from a valid body.
DiagnoseRequest(body) ==
  [logs      |-> IF "logs" \in DOMAIN body THEN body.logs ELSE <<>>,
   namespace |-> IF "namespace" \in DOMAIN body THEN body.namespace ELSE "default",
   context   |-> IF "context" \in DOMAIN body THEN <<body.context>> ELSE <<>>]

\* class DiagnoseResponse as response_model: issue, confidence and
\* suggestion are required, details is optional.
DiagnoseResponseValid(ret) ==
  {"issue", "confidence", "suggestion"} \subseteq DOMAIN ret

\* What the client receives for a handler's return value.
DiagnoseResponse(ret) ==
  IF DiagnoseResponseValid(ret)
  THEN [status |-> 200, body |-> ret]
  ELSE [status |-> 500, body |-> [detail |-> "Internal Server Error"]]

ValidationError ==
  [status |-> 422, body |-> [detail |-> "field required: logs"]]

NoResponse == [status |-> 0, body |-> <<>>]
NoRequest == [logs |-> <<>>, namespace |-> "", context |-> <<>>]
NoCall == [op |-> "none", body |-> <<>>]

\* ------------------------------------------------------------ the inputs
\* The sum of a function of numbers over 1..k.
RECURSIVE SumTo(_, _)
SumTo(lens, k) == IF k = 0 THEN 0 ELSE lens[k] + SumTo(lens, k - 1)

\* The list of lines whose lengths are lens and whose fragments, one line
\* after the other, are flat.
SplitLines(flat, lens) ==
  [i \in DOMAIN lens |-> SubSeq(flat, SumTo(lens, i - 1) + 1, SumTo(lens, i))]

SomeContext == [cluster |-> "eu-1"]

\* A body's optional fields: none, a namespace, a namespace and a context.
WithOptionals(logs) ==
  { [logs |-> logs],
    [logs |-> logs, namespace |-> "prod"],
    [logs |-> logs, namespace |-> "prod", context |-> SomeContext] }

\* The bodies the concurrent clients send: an empty list; one matching
\* line, bare and again with a namespace and a context; two lines where
\* the later one holds the keyword of higher priority; and no logs at all.
PoolBodies ==
  { [logs |-> <<>>],
    [logs |-> << <<"NetworkPolicy">> >>],
    [logs |-> << <<"NetworkPolicy">> >>, namespace |-> "prod", context |-> SomeContext],
    [logs |-> << <<"OOMKilled">>, <<"CrashLoop", "BackOff">> >>, namespace |-> "prod"],
    [namespace |-> "prod"] }

GetOps == {"GET /", "GET /health", "GET /api/issues"}
PostDiagnose == "POST /api/diagnose"

\* ---------------------------------------------------------------- state
VARIABLES
  SAMPLE_ISSUES,  \* the module-level list
  pc,             \* request -> "idle" | "pending" | "sleeping" | "done"
  call,           \* request -> [op, body] as the client sent it
  request,        \* request -> the DiagnoseRequest its handler was given
  response,       \* request -> [status, body] sent back
  stdout,         \* request -> the lines its handler printed
  loop,           \* the request whose handler occupies the event loop, 0 if none
  access_log      \* the requests answered, in the order of their answers

vars == <<SAMPLE_ISSUES, pc, call, request, response, stdout, loop, access_log>>

Init ==
  /\ SAMPLE_ISSUES = InitialCatalog
  /\ pc = [r \in Reqs |-> "idle"]
  /\ call = [r \in Reqs |-> NoCall]
  /\ request = [r \in Reqs |-> NoRequest]
  /\ response = [r \in Reqs |-> NoResponse]
  /\ stdout = [r \in Reqs |-> <<>>]
  /\ loop = 0
  /\ access_log = <<>>

\* A client sends request r; requests are numbered as they are sent.
Send(r) ==
  /\ pc[r] = "idle"
  /\ \A q \in Reqs : q < r => pc[q] # "idle"
  /\ \E c \in [op : GetOps, body : {<<>>}] \cup [op : {PostDiagnose}, body : PoolBodies] :
       call' = [call EXCEPT ![r] = c]
  /\ pc' = [pc EXCEPT ![r] = "pending"]
  /\ UNCHANGED <<SAMPLE_ISSUES, request, response, stdout, loop, access_log>>

\* The event loop runs a coroutine that never awaits from its first line
\* to its return; `answer` is sent and the loop is free again.
Answer(r, answer) ==
  /\ response' = [response EXCEPT ![r] = answer]
  /\ pc' = [pc EXCEPT ![r] = "done"]
  /\ access_log' = Append(access_log, r)
  /\ loop' = 0

\* The event loop takes a pending request when no handler occupies it.
Dispatch(r, op) ==
  /\ pc[r] = "pending"
  /\ call[r].op = op
  /\ loop = 0

root(r) ==
  /\ Dispatch(r, "GET /")
  /\ Answer(r, [status |-> 200, body |-> [message |-> "AutoKube AI Backend is running"]])
  /\ UNCHANGED <<SAMPLE_ISSUES, call, request, stdout>>

health_check(r) ==
  /\ Dispatch(r, "GET /health")
  /\ Answer(r, [status |-> 200, body |-> [status |-> "healthy", version |-> "1.0.0"]])
  /\ UNCHANGED <<SAMPLE_ISSUES, call, request, stdout>>

get_issues(r) ==
  /\ Dispatch(r, "GET /api/issues")
  /\ Answer(r, [status |-> 200, body |-> [issues |-> recent_issues]])
  /\ UNCHANGED <<SAMPLE_ISSUES, call, request, stdout>>

\* The body does not make a DiagnoseRequest: FastAPI answers 422 and the
\* handler is never called.
diagnose_rejected(r) ==
  /\ Dispatch(r, PostDiagnose)
  /\ ~DiagnoseRequestValid(call[r].body)
  /\ Answer(r, ValidationError)
  /\ UNCHANGED <<SAMPLE_ISSUES, call, request, stdout>>

\* The handler is called with the validated request and enters
\* time.sleep(0.5): a blocking sleep inside `async def`, so the event loop
\* stays with this handler until it returns.
diagnose_sleep(r) ==
  /\ Dispatch(r, PostDiagnose)
  /\ DiagnoseRequestValid(call[r].body)
  /\ request' = [request EXCEPT ![r] = DiagnoseRequest(call[r].body)]
  /\ pc' = [pc EXCEPT ![r] = "sleeping"]
  /\ loop' = r
  /\ UNCHANGED <<SAMPLE_ISSUES, call, response, stdout, access_log>>

\* The rest of the handler, `ret` its return value, `catalog` what it
\* leaves in SAMPLE_ISSUES.
HandlerReturns(r, ret, catalog) ==
  /\ stdout' = [stdout EXCEPT ![r] = diagnose_prints(request[r])]
  /\ Answer(r, DiagnoseResponse(ret))
  /\ SAMPLE_ISSUES' = catalog
  /\ UNCHANGED <<call, request>>

\* The handler moves the record it returns to the end of the list.
diagnose_return_rotating(r) ==
  /\ pc[r] = "sleeping"
  /\ loop = r
  /\ \E ret \in diagnose_issues(SAMPLE_ISSUES, request[r]) :
       HandlerReturns(r, ret, Tail(SAMPLE_ISSUES) \o <<Head(SAMPLE_ISSUES)>>)

\* The handler writes into the dict it returns, which is the catalogue's.
diagnose_return_annotating(r) ==
  /\ pc[r] = "sleeping"
  /\ loop = r
  /\ \E ret \in diagnose_issues(SAMPLE_ISSUES, request[r]) :
       HandlerReturns(r, ret,
         [k \in DOMAIN SAMPLE_ISSUES |->
            IF SAMPLE_ISSUES[k] = ret
            THEN [ret EXCEPT !.suggestion = request[r].namespace]
            ELSE SAMPLE_ISSUES[k]])

\* The sleep is over: the prints, the scan, the return.  The handler reads
\* SAMPLE_ISSUES and assigns nothing.
diagnose_return(r) ==
  /\ pc[r] = "sleeping"
  /\ loop = r
  /\ \E ret \in diagnose_issues(SAMPLE_ISSUES, request[r]) :
       HandlerReturns(r, ret, SAMPLE_ISSUES)

Handle(r) ==
  \/ root(r)
  \/ health_check(r)
  \/ get_issues(r)
  \/ diagnose_rejected(r)
  \/ diagnose_sleep(r)
  \/ diagnose_return(r)

Next == \E r \in Reqs : Send(r) \/ Handle(r)

Spec == Init /\ [][Next]_vars

\* The same service with the clients sending MaxLiveRequests requests.
LiveReqs == 1..MaxLiveRequests

NextLive == \E r \in LiveReqs : Send(r) \/ Handle(r)

\* uvicorn's loop runs every ready task, and a sleep ends: a handler that
\* can run does.  Nothing makes a client send.
LiveSpec ==
  /\ Init
  /\ [][NextLive]_vars
  /\ \A r \in LiveReqs : WF_vars(Handle(r))

\* One POST /api/diagnose.  Its body has no logs, or any list of at most
\* MaxLogs lines that hold at most MaxFragments fragments in all.
InitDiagnose ==
  /\ SAMPLE_ISSUES = InitialCatalog
  /\ pc = [r \in Reqs |-> IF r = 1 THEN "pending" ELSE "idle"]
  /\ \E n \in 0..MaxFragments, k \in 0..MaxLogs :
       \E flat \in [1..n -> Fragments], lens \in [1..k -> 0..n] :
         /\ SumTo(lens, k) = n
         /\ \E b \in WithOptionals(SplitLines(flat, lens)) \cup {[namespace |-> "prod"]} :
              call = [r \in Reqs |->
                        IF r = 1 THEN [op |-> PostDiagnose, body |-> b] ELSE NoCall]
  /\ request = [r \in Reqs |-> NoRequest]
  /\ response = [r \in Reqs |-> NoResponse]
  /\ stdout = [r \in Reqs |-> <<>>]
  /\ loop = 0
  /\ access_log = <<>>

NextDiagnose == diagnose_rejected(1) \/ diagnose_sleep(1) \/ diagnose_return(1)

DiagnoseSpec == InitDiagnose /\ [][NextDiagnose]_vars

\* ------------------------------------------------------------ properties
\* The trigger keywords in the order the handler tests them, and the issue
\* each one stands for.
TriggerKeywords ==
  <<KwCrashLoopBackOff, KwImagePull, KwOOMKilled, KwNetworkPolicy, KwUnschedulable>>

RecordNames ==
  <<"CrashLoopBackOff", "ImagePullBackOff", "OOMKilled", "NetworkPolicyBlocked",
    "PodUnschedulable">>

\* kw is a substring of log: log = pre \o kw \o post for some pre and post.
HasSubstring(log, kw) ==
  \E i \in 1..Len(log), j \in 1..Len(log) : SubSeq(log, i, j) = kw

HasKeyword(log) == \E j \in DOMAIN TriggerKeywords : HasSubstring(log, TriggerKeywords[j])

IsDiagnose(r) == call[r].op = PostDiagnose
HasLogs(r) == IsDiagnose(r) /\ "logs" \in DOMAIN call[r].body
Answered(r) == pc[r] = "done"
LogsOf(r) == call[r].body.logs
SomeLineMatches(r) == \E i \in 1..Len(LogsOf(r)) : HasKeyword(LogsOf(r)[i])

\* C1: whenever some line of a Diagnose request's logs holds a trigger
\* keyword, the answer is the record of the first keyword, in the fixed
\* order, that the FIRST such line holds: CrashLoopBackOff, ImagePull,
\* OOMKilled, NetworkPolicy, Unschedulable select the records named
\* CrashLoopBackOff, ImagePullBackOff, OOMKilled, NetworkPolicyBlocked,
\* PodUnschedulable.  A keyword on a later line never overrides it.
C1_LineMajorKeywordMinor ==
  \A r \in Reqs :
    (Answered(r) /\ HasLogs(r)) =>
      \A i \in 1..Len(LogsOf(r)), j \in DOMAIN TriggerKeywords :
        ( /\ HasSubstring(LogsOf(r)[i], TriggerKeywords[j])
          /\ \A i2 \in 1..(i - 1) : ~HasKeyword(LogsOf(r)[i2])
          /\ \A j2 \in 1..(j - 1) : ~HasSubstring(LogsOf(r)[i], TriggerKeywords[j2]) )
        => /\ response[r].status = 200
           /\ response[r].body = InitialCatalog[j]
           /\ response[r].body.issue = RecordNames[j]

\* C1's case: answered, and a later line holds a keyword of higher priority
\* than the keyword that selected the record.
C1_Witness ==
  \E r \in Reqs :
    /\ Answered(r) /\ HasLogs(r)
    /\ \E i \in 1..Len(LogsOf(r)), i2 \in 1..Len(LogsOf(r)) :
         /\ i < i2
         /\ \A i0 \in 1..(i - 1) : ~HasKeyword(LogsOf(r)[i0])
         /\ HasSubstring(LogsOf(r)[i], KwOOMKilled)
         /\ ~HasSubstring(LogsOf(r)[i], KwCrashLoopBackOff)
         /\ ~HasSubstring(LogsOf(r)[i], KwImagePull)
         /\ HasSubstring(LogsOf(r)[i2], KwCrashLoopBackOff)
    /\ response[r].body.issue = "OOMKilled"

\* C2: while the handler of one Diagnose request is in its delay, every
\* other request that is waiting to be handled can be handled: the delay
\* holds up its own request only.
C2_DelayBlocksOnlyItsRequest ==
  \A r \in Reqs, q \in Reqs :
    (pc[r] = "sleeping" /\ q # r /\ pc[q] = "pending") => ENABLED Handle(q)

\* C3: if a line holding CrashLoopBackOff comes before every line that
\* holds ImagePull, OOMKilled, NetworkPolicy or Unschedulable, the answer
\* is the CrashLoopBackOff record.
C3_CrashLoopFirst ==
  \A r \in Reqs :
    (Answered(r) /\ HasLogs(r)) =>
      ( (\E i \in 1..Len(LogsOf(r)) :
           /\ HasSubstring(LogsOf(r)[i], KwCrashLoopBackOff)
           /\ \A i2 \in 1..(i - 1), j \in 2..5 :
                ~HasSubstring(LogsOf(r)[i2], TriggerKeywords[j]))
        => /\ response[r].status = 200
           /\ response[r].body = InitialCatalog[1]
           /\ response[r].body.issue = "CrashLoopBackOff"
           /\ response[r].body.confidence = 92 )

\* C3's case: answered, a CrashLoopBackOff line, and a line holding
\* another keyword after it.
C3_Witness ==
  \E r \in Reqs :
    /\ Answered(r) /\ HasLogs(r)
    /\ Len(LogsOf(r)) = 2
    /\ HasSubstring(LogsOf(r)[1], KwCrashLoopBackOff)
    /\ HasSubstring(LogsOf(r)[2], KwImagePull)
    /\ response[r].body.issue = "CrashLoopBackOff"

\* C4: every answer to a schema-valid Diagnose request, and so the answer
\* when no line holds a keyword or when logs is empty, is one of the five
\* records of the catalogue, verbatim.
C4_AnswerInCatalog ==
  \A r \in Reqs :
    (Answered(r) /\ HasLogs(r)) =>
      /\ response[r].status = 200
      /\ \E k \in 1..5 : response[r].body = InitialCatalog[k]

\* C4's case: a request with empty logs was answered, here by the last
\* record of the catalogue.
C4_Witness ==
  \E r \in Reqs :
    /\ Answered(r) /\ HasLogs(r)
    /\ LogsOf(r) = <<>>
    /\ response[r].body = InitialCatalog[5]

\* C5: a POST /api/diagnose whose body has no logs field is answered by a
\* 4xx validation error that carries no issue record, and the handler is
\* never entered for it: no sleep, no print, no request object.
C5_MissingLogsRejected ==
  \A r \in Reqs :
    (IsDiagnose(r) /\ ~HasLogs(r)) =>
      /\ pc[r] # "sleeping"
      /\ loop # r
      /\ stdout[r] = <<>>
      /\ request[r] = NoRequest
      /\ Answered(r) =>
           /\ response[r].status \in 400..499
           /\ "issue" \notin DOMAIN response[r].body

C5_Witness ==
  \E r \in Reqs :
    /\ IsDiagnose(r) /\ ~HasLogs(r)
    /\ Answered(r)
    /\ response[r].status = 422

\* C6: a schema-valid Diagnose request that reached the service is
\* eventually answered, a ListIssues request too, and the answer is
\* always a success carrying a DiagnoseResponse (the list of issues),
\* never a failure.
C6_CoreLogicTotal ==
  /\ \A r \in Reqs :
       (pc[r] = "pending" /\ HasLogs(r))
         ~> (Answered(r) /\ response[r].status = 200
             /\ DiagnoseResponseValid(response[r].body))
  /\ \A r \in Reqs :
       (pc[r] = "pending" /\ call[r].op = "GET /api/issues")
         ~> (Answered(r) /\ response[r].status = 200
             /\ "issues" \in DOMAIN response[r].body)
  /\ [](\A r \in Reqs :
          (Answered(r) /\ (HasLogs(r) \/ call[r].op = "GET /api/issues"))
            => response[r].status = 200)

\* C6's case: a Diagnose with empty logs and a ListIssues were both
\* answered, the Diagnose first.
C6_Witness ==
  /\ Len(access_log) = 2
  /\ HasLogs(access_log[1]) /\ LogsOf(access_log[1]) = <<>>
  /\ call[access_log[2]].op = "GET /api/issues"
  /\ response[access_log[1]].status = 200
  /\ response[access_log[2]].status = 200

\* C7: whatever was handled before, a Diagnose whose logs hold a matching
\* line is answered by the record the handler returns in the initial
\* state, and GetHealth by {status: healthy, version: 1.0.0}.
C7_IndependentOfPriorCalls ==
  \A r \in Reqs :
    Answered(r) =>
      /\ (HasLogs(r) /\ SomeLineMatches(r)) =>
           diagnose_issues(InitialCatalog, DiagnoseRequest(call[r].body))
             = {response[r].body}
      /\ call[r].op = "GET /health" =>
           response[r] = [status |-> 200,
                          body |-> [status |-> "healthy", version |-> "1.0.0"]]

\* C7's case: a matching Diagnose and a GetHealth answered last and next
\* to last, after another Diagnose was answered.
C7_Witness ==
  /\ Len(access_log) = 3
  /\ HasLogs(access_log[1])
  /\ \E a \in 2..3, b \in 2..3 :
       /\ a # b
       /\ HasLogs(access_log[a]) /\ SomeLineMatches(access_log[a])
       /\ call[access_log[b]].op = "GET /health"

\* C8: every answer of ListIssues holds exactly the three entries
\* issue-001, issue-002, issue-003 in this order, and any two answers of
\* ListIssues are the same.
C8_ListIssuesFixed ==
  \A r \in Reqs, q \in Reqs :
    (Answered(r) /\ call[r].op = "GET /api/issues") =>
      /\ Len(response[r].body.issues) = 3
      /\ [k \in 1..3 |-> response[r].body.issues[k].id]
           = <<"issue-001", "issue-002", "issue-003">>
      /\ (Answered(q) /\ call[q].op = "GET /api/issues") => response[q] = response[r]

\* C8's case: two ListIssues answered with a Diagnose answered in between.
C8_Witness ==
  /\ Len(access_log) = 3
  /\ call[access_log[1]].op = "GET /api/issues"
  /\ HasLogs(access_log[2])
  /\ call[access_log[3]].op = "GET /api/issues"

\* C9: two Diagnose requests with the same logs, holding a matching line,
\* get the same record whatever their namespace and context; the namespace
\* shows in the printed line only.
C9_OnlyLogsDecide ==
  \A r \in Reqs, q \in Reqs :
    ( /\ Answered(r) /\ HasLogs(r) /\ SomeLineMatches(r)
      /\ Answered(q) /\ HasLogs(q) /\ LogsOf(q) = LogsOf(r) )
    => /\ response[q] = response[r]
       /\ stdout[r] = << <<"Received logs for namespace: ", request[r].namespace>>,
                         <<"Log count: ", Len(LogsOf(r))>> >>

\* C9's case: two answered requests with the same matching logs whose
\* namespace and context both differ.
C9_Witness ==
  \E r \in Reqs, q \in Reqs :
    /\ Answered(r) /\ HasLogs(r) /\ SomeLineMatches(r)
    /\ Answered(q) /\ HasLogs(q) /\ LogsOf(q) = LogsOf(r)
    /\ request[r].namespace # request[q].namespace
    /\ request[r].context # request[q].context

\* C10: SAMPLE_ISSUES holds the five initial records, in their order and
\* with their field values, in every reachable state.
C10_CatalogNeverMutated ==
  /\ SAMPLE_ISSUES = InitialCatalog
  /\ Len(SAMPLE_ISSUES) = 5

\* C10's case: a Diagnose answered with a record, a request rejected and a
\* GET answered.
C10_Witness ==
  \E r \in Reqs, q \in Reqs, p \in Reqs :
    /\ Answered(r) /\ HasLogs(r) /\ response[r].status = 200
    /\ Answered(q) /\ IsDiagnose(q) /\ response[q].status = 422
    /\ Answered(p) /\ call[p].op \in GetOps

====
